---- MODULE Spec2Model ----
(***************************************************************************)
(* Polymorphic references (polymorphic/models.py).                         *)
(*                                                                         *)
(* A Reference model declares ReferenceSource slots (nullable unique       *)
(* one-to-one keys, one per source model) and proxies (Reference columns   *)
(* fed from the source row).  The module derives DDL from the declaration  *)
(* (check constraint, unique indexes, trigger functions, triggers) and     *)
(* runs it statement by statement; Reference rows are read through         *)
(* unpack / select_sources and never written by the application.           *)
(*                                                                         *)
(* The database is the environment: the effect of each generated           *)
(* statement is modelled from the SQL text the code emits.                 *)
(***************************************************************************)
EXTENDS Integers, Sequences, FiniteSets, TLC

\* ------------------------------------------------------------------ bounds
NumSources == 2     \* declared ReferenceSource slots of the Reference model
MaxPk == 1          \* primary keys of a source table are 1..MaxPk
MaxVal == 2         \* values of a source column are 1..MaxVal
MaxApply == 2       \* runs of _run_sql_statements in one behaviour

\* SQL NULL / Python None of a key or of a proxied column ('null': True).
Null == 0

Slots == 1..NumSources
PKs == 1..MaxPk
Vals == 1..MaxVal

\* Columns of every source model; the Reference model's proxied columns carry
\* the same names, so that a proxy without foreign_field resolves by default.
Cols == {"x", "z"}

Max(S) == CHOOSE m \in S : \A n \in S : n <= m
Min(S) == CHOOSE m \in S : \A n \in S : m <= n

\* ----------------------------------------------------- declared fields
\* Values a declaration can hold: None, a column name (str), or a Combinable
\* expression; Absent marks a key that is not in a foreign_fields dict.
None == [t |-> "None", v |-> ""]
Absent == [t |-> "absent", v |-> ""]
Str(c) == [t |-> "str", v |-> c]
\* F('owner__x'): an expression that follows a relation to another table.
JoinExpr == [t |-> "Combinable", v |-> "owner__x"]

\* ReferenceSource(models.OneToOneField): name, attname and the tables.
name(self) == "source" \o ToString(self)
attname(self) == name(self) \o "_id"
column(self) == attname(self)
source_table_name(self) == "app_source" \o ToString(self)
reference_model_table_name == "app_reference"

\* Columns of the Reference table: one key per slot, then the proxied ones.
RefColumns == {column(s) : s \in Slots} \cup Cols
\* Columns of a source table: the primary key and the data columns.
SrcColumns == {"id"} \cup Cols

\* AbstractProxy._run_init: the three attributes of a proxy.
AbstractProxy(reference_field, foreign_field, foreign_fields) ==
    [reference_field |-> reference_field,
     foreign_field |-> foreign_field,
     foreign_fields |-> foreign_fields]

\* AbstractProxy.foreign_column: foreign_field or reference_field.column
foreign_column(proxy) ==
    IF proxy.foreign_field # None
    THEN proxy.foreign_field
    ELSE Str(proxy.reference_field)

\* What a foreign_fields dict can give a slot.
OverrideVals(col) == {Absent, None, Str(CHOOSE c \in Cols : c # col), JoinExpr}

\* Proxies that can be declared on Reference column col.
ProxiesOn(col) ==
    {AbstractProxy(col, ff, fs) :
        ff \in {None, Str(CHOOSE c \in Cols : c # col)},
        fs \in [Slots -> OverrideVals(col)]}

\* A declaration: FieldProxy objects held as class attributes (on column
\* "x") and Proxied*Field model fields (column "z"), at most one of each.
Configs ==
    {[class_attrs |-> a, fields |-> f] :
        a \in {<<>>} \cup {<<p>> : p \in ProxiesOn("x")},
        f \in {<<>>} \cup {<<p>> : p \in ProxiesOn("z")}}

\* ReferenceModel.get_field_proxies: class attributes, then model fields.
get_field_proxies(cls) == cls.class_attrs \o cls.fields

\* ReferenceModel.get_reference_sources: the slots in declaration order.
get_reference_sources == [i \in 1..NumSources |-> i]

\* ------------------------------------------- get_proxy_and_foreign_cols
\* The overrides dict: reference_field -> value, for the entries of every
\* truthy foreign_fields whose key is this slot; a later proxy overwrites.
overrides(self, proxies) ==
    [rf \in Cols |->
        LET J == {j \in 1..Len(proxies) :
                    /\ proxies[j].reference_field = rf
                    /\ proxies[j].foreign_fields[self] # Absent}
        IN IF J = {} THEN Absent ELSE proxies[Max(J)].foreign_fields[self]]

\* qs.query.tables of related_model.objects.annotate(ann_forex=expression)
query_tables(self, foreign_col) ==
    IF foreign_col.t = "Combinable"
    THEN <<source_table_name(self), "app_owner">>
    ELSE <<source_table_name(self)>>

InSeq(e, s) == \E i \in 1..Len(s) : s[i] = e

\* ann.as_sql(compiler, connection)[0]: "<table>"."<column>", as its two parts
as_sql(self, foreign_col) == <<source_table_name(self), foreign_col.v>>

\* resolved[0].replace('"<source table>"', 'NEW')
replace(sql, old, new) == [i \in 1..Len(sql) |-> IF sql[i] = old THEN new ELSE sql[i]]

RECURSIVE proxy_loop(_, _, _, _)
proxy_loop(self, proxies, i, acc) ==
    IF i > Len(proxies) THEN acc
    ELSE
      LET proxy == proxies[i]
          proxy_field_col == foreign_column(proxy)
          o == overrides(self, proxies)[proxy.reference_field]
          foreign_col == IF o # Absent THEN o ELSE proxy_field_col
      IN IF foreign_col = None
         THEN proxy_loop(self, proxies, i + 1, acc)
         ELSE
           LET tables == query_tables(self, foreign_col)
           IN IF Len(tables) > 1 \/ ~InSeq(source_table_name(self), tables)
              THEN [acc EXCEPT !.raised = "Proxy expressions can only use 1 table"]
              ELSE
                LET resolved == as_sql(self, foreign_col)
                    replaced == replace(resolved, source_table_name(self), "NEW")
                IN proxy_loop(self, proxies, i + 1,
                     [acc EXCEPT
                        !.proxy_field_cols = Append(@, proxy_field_col.v),
                        !.foreign_cols = Append(@,
                            [sql |-> replaced, params |-> <<>>,
                             ann |-> foreign_col.v])])

\* ReferenceSource.get_proxy_and_foreign_cols
get_proxy_and_foreign_cols(self, cls) ==
    proxy_loop(self, get_field_proxies(cls), 1,
        [raised |-> "", proxy_field_cols |-> <<>>, foreign_cols |-> <<>>])

\* ------------------------------------------------- generated statements
trigger_name(self) ==
    "update_" \o source_table_name(self) \o "_" \o reference_model_table_name \o "_trigger"
index_name(self) ==
    "unique_" \o source_table_name(self) \o "_" \o reference_model_table_name \o "_ix"
trigger_function_name(self) ==
    "update_" \o source_table_name(self) \o "_" \o reference_model_table_name \o "_()"
make_constraint_name == "constraint_" \o reference_model_table_name \o "_only_one_source"

SqlOf(triples) == [i \in 1..Len(triples) |-> triples[i].sql]

RECURSIVE ParamsOf(_)
ParamsOf(triples) ==
    IF triples = <<>> THEN <<>>
    ELSE Head(triples).params \o ParamsOf(Tail(triples))

\* ReferenceSource.trigger_function_statement: INSERT INTO reference(into)
\* VALUES (values); EXCEPTION WHEN unique_violation THEN UPDATE reference
\* SET (set_cols) = (set_values) WHERE where_col = NEW.<pk>.
trigger_function_statement(self, cls) ==
    LET r == get_proxy_and_foreign_cols(self, cls)
        fk_col_name == "id"
        insert_col_names == <<column(self)>> \o r.proxy_field_cols
        insert_value_cols ==
            << [sql |-> <<"NEW", fk_col_name>>, params |-> << >>, ann |-> ""] >>
                \o r.foreign_cols
    IN IF r.raised # "" THEN [raised |-> r.raised, sql |-> <<>>, params |-> <<>>]
       ELSE [raised |-> "",
             sql |-> [kind |-> "create_function",
                      slot |-> self,
                      name |-> trigger_function_name(self),
                      into |-> insert_col_names,
                      values |-> SqlOf(insert_value_cols),
                      set_cols |-> r.proxy_field_cols,
                      set_values |-> SqlOf(r.foreign_cols),
                      where_col |-> column(self),
                      where_val |-> <<"NEW", fk_col_name>>],
             params |-> ParamsOf(insert_value_cols) \o ParamsOf(r.foreign_cols)]

\* ReferenceSource.drop_trigger_statement
drop_trigger_statement(self) ==
    [raised |-> "",
     sql |-> [kind |-> "drop_trigger", slot |-> self, name |-> trigger_name(self)],
     params |-> <<>>]

\* ReferenceSource.create_trigger_statement.  The set comprehension tests
\* isinstance(c, Col) for every node of every resolved expression, and the
\* module never binds the name Col: with one resolved expression or more the
\* lookup raises NameError; with none the column list of UPDATE OF is empty.
create_trigger_statement(self, cls) ==
    LET r == get_proxy_and_foreign_cols(self, cls)
    IN IF r.raised # "" THEN [raised |-> r.raised, sql |-> <<>>, params |-> <<>>]
       ELSE IF Len(r.foreign_cols) > 0
       THEN [raised |-> "NameError: global name 'Col' is not defined",
             sql |-> <<>>, params |-> <<>>]
       ELSE [raised |-> "",
             sql |-> [kind |-> "create_trigger",
                      slot |-> self,
                      name |-> trigger_name(self),
                      trigger_cols |-> {},
                      func |-> trigger_function_name(self)],
             params |-> <<>>]

\* ReferenceSource.index_statement (with index_function_statement): create
\* the unique index; on duplicate_table drop it by name and create it again.
index_statement(self) ==
    [raised |-> "",
     sql |-> [kind |-> "index", slot |-> self, name |-> index_name(self),
              on_col |-> column(self)],
     params |-> <<>>]

\* ReferenceModel.make_drop_constraint_statement
make_drop_constraint_statement ==
    [raised |-> "",
     sql |-> [kind |-> "drop_constraint", slot |-> 0, name |-> make_constraint_name],
     params |-> <<>>]

\* ReferenceModel.make_add_constaint_statement
make_add_constaint_statement ==
    [raised |-> "",
     sql |-> [kind |-> "add_constraint", slot |-> 0, name |-> make_constraint_name],
     params |-> <<>>]

\* ---------------------------------------------------- the check constraint
RECURSIVE constraint_sum(_, _)
constraint_sum(row, sources) ==
    IF sources = <<>> THEN 0
    ELSE (IF row[column(Head(sources))] # Null THEN 1 ELSE 0)
            + constraint_sum(row, Tail(sources))

make_constraint_check_loose(row) == constraint_sum(row, get_reference_sources) >= 1

\* ReferenceModel.make_constraint_check, evaluated on a row:
\* (CASE WHEN c1 IS NOT NULL THEN 1 ELSE 0 END + ...) = 1
make_constraint_check(row) == constraint_sum(row, get_reference_sources) = 1

\* ------------------------------------------------------------- database
\* The catalog of the objects the generated DDL names, and their effect.
NoFunction ==
    [present |-> FALSE, into |-> <<>>, values |-> <<>>,
     set_cols |-> <<>>, set_values |-> <<>>, where_col |-> ""]
NoTrigger == [present |-> FALSE, trigger_cols |-> {}]
EmptyCatalog ==
    [constraint |-> 0,
     index |-> [s \in Slots |-> 0],
     func |-> [s \in Slots |-> NoFunction],
     trigger |-> [s \in Slots |-> NoTrigger]]

Ok(cat) == [err |-> "", catalog |-> cat]
Fault(cat, e) == [err |-> e, catalog |-> cat]

\* CREATE UNIQUE INDEX <index_name> ON reference(<column>);
index_function_statement(cat, rows, sql) ==
    IF cat.index[sql.slot] > 0 THEN Fault(cat, "duplicate_table")
    ELSE IF \E r1, r2 \in rows :
                r1 # r2 /\ r1[sql.on_col] # Null /\ r1[sql.on_col] = r2[sql.on_col]
    THEN Fault(cat, "unique_violation")
    ELSE Ok([cat EXCEPT !.index[sql.slot] = @ + 1])

\* DO $$ BEGIN <create> EXCEPTION WHEN duplicate_table THEN
\*    DROP INDEX <index_name>; <create> END; $$;
do_index_block(cat, rows, sql) ==
    LET first == index_function_statement(cat, rows, sql)
    IN IF first.err = "duplicate_table"
       THEN index_function_statement([cat EXCEPT !.index[sql.slot] = 0], rows, sql)
       ELSE first

\* cursor.execute(statement, params): what the database does with one
\* generated statement.
cursor_execute(cat, rows, sql) ==
    CASE sql.kind = "drop_constraint" ->
            Ok([cat EXCEPT !.constraint = 0])
      [] sql.kind = "add_constraint" ->
            IF cat.constraint > 0 THEN Fault(cat, "duplicate_object")
            ELSE IF \E r \in rows : ~make_constraint_check(r)
            THEN Fault(cat, "check_violation")
            ELSE Ok([cat EXCEPT !.constraint = @ + 1])
      [] sql.kind = "index" ->
            do_index_block(cat, rows, sql)
      [] sql.kind = "create_function" ->
            \* SET () = () does not parse
            IF Len(sql.set_cols) = 0 THEN Fault(cat, "syntax_error")
            ELSE Ok([cat EXCEPT !.func[sql.slot] =
                        [present |-> TRUE, into |-> sql.into,
                         values |-> sql.values, set_cols |-> sql.set_cols,
                         set_values |-> sql.set_values,
                         where_col |-> sql.where_col]])
      [] sql.kind = "drop_trigger" ->
            Ok([cat EXCEPT !.trigger[sql.slot] = NoTrigger])
      [] sql.kind = "create_trigger" ->
            \* UPDATE OF with no column does not parse
            IF sql.trigger_cols = {} THEN Fault(cat, "syntax_error")
            ELSE IF cat.trigger[sql.slot].present THEN Fault(cat, "duplicate_object")
            ELSE IF ~cat.func[sql.slot].present THEN Fault(cat, "undefined_function")
            ELSE Ok([cat EXCEPT !.trigger[sql.slot] =
                        [present |-> TRUE, trigger_cols |-> sql.trigger_cols]])

\* ReferenceModel._execute_sql over statements that are already generated:
\* each goes to cursor.execute in turn; a database error ends the run.
\* st = [catalog, log, err]; log lists the statements handed to the cursor.
RECURSIVE execute_sql(_, _, _)
execute_sql(st, rows, statements) ==
    IF statements = <<>> \/ st.err # "" THEN st
    ELSE
      LET sql == Head(statements).sql
          res == cursor_execute(st.catalog, rows, sql)
      IN execute_sql(
            [catalog |-> res.catalog,
             log |-> Append(st.log, <<sql.kind, sql.slot>>),
             err |-> res.err],
            rows, Tail(statements))

\* ReferenceModel._gen_constraint_statements: both statements are built when
\* the generator expression is created.
gen_constraint_statements ==
    <<make_drop_constraint_statement, make_add_constaint_statement>>

\* ReferenceModel._gen_index_statements
gen_index_statements ==
    [i \in 1..Len(get_reference_sources) |-> index_statement(get_reference_sources[i])]

\* ReferenceModel._gen_trigger_statements, one reference: the tuple of the
\* three properties is built before its first statement is yielded.
gen_trigger_statements(cls, reference) ==
    <<trigger_function_statement(reference, cls),
      drop_trigger_statement(reference),
      create_trigger_statement(reference, cls)>>

FirstRaised(tuple) ==
    LET R == {i \in 1..Len(tuple) : tuple[i].raised # ""}
    IN IF R = {} THEN "" ELSE tuple[Min(R)].raised

\* _execute_sql pulling from the lazy _gen_trigger_statements: the statements
\* of reference i are generated only after those of references 1..i-1 ran.
RECURSIVE trigger_loop(_, _, _, _)
trigger_loop(cls, st, rows, i) ==
    IF i > Len(get_reference_sources) \/ st.err # "" THEN st
    ELSE
      LET tuple == gen_trigger_statements(cls, get_reference_sources[i])
          raised == FirstRaised(tuple)
      IN IF raised # "" THEN [st EXCEPT !.err = raised]
         ELSE trigger_loop(cls, execute_sql(st, rows, tuple), rows, i + 1)

\* ReferenceModel._run_sql_statements = _execute_sql(_gen_all_statements()):
\* constraints, then indexes, then triggers, generated lazily group by group.
run_sql_statements(cls, cat, rows) ==
    LET s0 == [catalog |-> cat, log |-> <<>>, err |-> ""]
        s1 == execute_sql(s0, rows, gen_constraint_statements)
        s2 == execute_sql(s1, rows, gen_index_statements)
    IN trigger_loop(cls, s2, rows, 1)

\* ---------------------------------------------- the generated trigger
\* Value of a rendered expression NEW."<column>" on the trigger's row NEW.
EvalSql(sql, new_row) == new_row[sql[2]]

ValueAt(cols, sqls, c, new_row) ==
    EvalSql(sqls[Max({i \in 1..Len(cols) : cols[i] = c})], new_row)

\* The body of the trigger function: INSERT, and on unique_violation UPDATE.
\* The key columns are unique (ReferenceSource sets unique=True).
trigger_function(f, rows, new_row) ==
    LET inserted ==
            [c \in RefColumns |->
                IF \E i \in 1..Len(f.into) : f.into[i] = c
                THEN ValueAt(f.into, f.values, c, new_row) ELSE Null]
        unique_violation ==
            \E r \in rows : \E s \in Slots :
                inserted[column(s)] # Null /\ r[column(s)] = inserted[column(s)]
    IN IF ~unique_violation THEN rows \cup {inserted}
       ELSE {IF r[f.where_col] = new_row["id"]
             THEN [c \in RefColumns |->
                    IF \E i \in 1..Len(f.set_cols) : f.set_cols[i] = c
                    THEN ValueAt(f.set_cols, f.set_values, c, new_row) ELSE r[c]]
             ELSE r : r \in rows}

\* -------------------------------------------------------------- state
VARIABLES
    cfg,        \* the declaration of the Reference model
    catalog,    \* constraint, indexes, functions and triggers in the database
    src,        \* src[s]: rows of the source table of slot s
    ref,        \* rows of the Reference table
    run,        \* runs of _run_sql_statements: count, last error, last log
    op          \* the last operation and what it returned or raised

vars == <<cfg, catalog, src, ref, run, op>>

NoRun == [n |-> 0, err |-> "", log |-> <<>>]
Idle == [name |-> "idle"]

SrcRow(pk, x, z) == [c \in SrcColumns |-> IF c = "id" THEN pk ELSE IF c = "x" THEN x ELSE z]

\* A fresh database and any declaration.
Init ==
    /\ cfg \in Configs
    /\ catalog = EmptyCatalog
    /\ src = [s \in Slots |-> {}]
    /\ ref = {}
    /\ run = NoRun
    /\ op = Idle

\* ReferenceModel._run_sql_statements()
RunSqlStatements ==
    /\ run.n < MaxApply
    /\ LET r == run_sql_statements(cfg, catalog, ref)
       IN /\ catalog' = r.catalog
          /\ run' = [n |-> run.n + 1, err |-> r.err, log |-> r.log]
    /\ op' = [name |-> "run_sql_statements"]
    /\ UNCHANGED <<cfg, src, ref>>

\* INSERT INTO <source table>: the row, then the AFTER INSERT trigger if the
\* catalog holds one for the table.
InsertSource(s, pk, x, z) ==
    /\ run.n >= 1
    /\ \A r \in src[s] : r["id"] # pk
    /\ LET new_row == SrcRow(pk, x, z)
       IN /\ src' = [src EXCEPT ![s] = @ \cup {new_row}]
          /\ ref' = IF catalog.trigger[s].present
                    THEN trigger_function(catalog.func[s], ref, new_row)
                    ELSE ref
    /\ op' = [name |-> "insert", slot |-> s, pk |-> pk]
    /\ UNCHANGED <<cfg, catalog, run>>

\* UPDATE <source table> SET c = v WHERE id = pk: the AFTER UPDATE OF trigger
\* fires when c is one of its columns.
UpdateSource(s, pk, c, v) ==
    /\ \E old \in src[s] :
        /\ old["id"] = pk
        /\ old[c] # v
        /\ LET new_row == [old EXCEPT ![c] = v]
           IN /\ src' = [src EXCEPT ![s] = (@ \ {old}) \cup {new_row}]
              /\ ref' = IF /\ catalog.trigger[s].present
                           /\ c \in catalog.trigger[s].trigger_cols
                        THEN trigger_function(catalog.func[s], ref, new_row)
                        ELSE ref
    /\ op' = [name |-> "update", slot |-> s, pk |-> pk]
    /\ UNCHANGED <<cfg, catalog, run>>

Next ==
    \/ RunSqlStatements
    \/ \E s \in Slots, pk \in PKs, x \in Vals, z \in Vals : InsertSource(s, pk, x, z)
    \/ \E s \in Slots, pk \in PKs, c \in Cols, v \in Vals : UpdateSource(s, pk, c, v)

Spec == Init /\ [][Next]_vars

\* ------------------------------------------------------ reading a Reference
RECURSIVE unpack_loop(_, _)
unpack_loop(self, sources) ==
    IF sources = <<>> THEN [raised |-> "Reference has no source", source |-> "", pk |-> Null]
    ELSE IF self[column(Head(sources))] # Null
         THEN [raised |-> "", source |-> name(Head(sources)),
               pk |-> self[column(Head(sources))]]
         ELSE unpack_loop(self, Tail(sources))

unpack_last(self) ==
    LET P == {s \in Slots : self[column(s)] # Null}
    IN IF P = {} THEN [raised |-> "Reference has no source", source |-> "", pk |-> Null]
       ELSE [raised |-> "", source |-> name(Max(P)), pk |-> self[column(Max(P))]]

\* ReferenceModel.unpack: the related object of the first slot whose column
\* is not None (getattr(self, source.name): the source row with that key).
unpack(self) == unpack_loop(self, get_reference_sources)

\* ReferenceQuerySet.select_sources(*sources) on the rows of a queryset: q is
\* the OR of <attname>__isnull=False over the slots that sources names, and
\* filter(Q()) with nothing OR-ed into it filters nothing.
select_sources(qs, sources) ==
    IF Cardinality(sources) = 0
    THEN [raised |-> "At least one source needs to be specified", rows |-> {}]
    ELSE
      LET q == {i \in 1..Len(get_reference_sources) :
                    \/ attname(get_reference_sources[i]) \in sources
                    \/ name(get_reference_sources[i]) \in sources}
      IN [raised |-> "",
          rows |-> IF q = {} THEN qs
                   ELSE {r \in qs :
                            \E i \in q : r[attname(get_reference_sources[i])] # Null}]

\* ------------------------------------------------- writing a Reference
save_writes(rows, self) == [raised |-> "", rows |-> rows \cup {self}]

\* ReferenceModel.save
save(rows, self) == [raised |-> "Only triggers can update References", rows |-> rows]

\* ReferenceModel.delete
delete(rows, self) == [raised |-> "Cannot delete a Reference", rows |-> rows]

\* ReferenceQuerySet.delete
queryset_delete(rows, qs) == [raised |-> "Cannot delete a Reference", rows |-> rows]

\* ReferenceQuerySet.update
queryset_update(rows, qs, c, v) ==
    [raised |-> "Only triggers can update References", rows |-> rows]

\* ------------------------------------------- the application layer, alone
MaxRows == 1        \* Reference rows the database holds at the start

NoProxies == [class_attrs |-> <<>>, fields |-> <<>>]

\* An instance as the application can build it: keys only.
KeyRows ==
    {[c \in RefColumns |-> IF c \in Cols THEN Null ELSE k[c]] :
        k \in [{column(s) : s \in Slots} -> {Null} \cup PKs]}

\* Rows the check constraint admits, with any proxied values.
ValidRows ==
    {r \in [RefColumns -> {Null} \cup PKs \cup Vals] :
        /\ \A s \in Slots : r[column(s)] \in {Null} \cup PKs
        /\ \A c \in Cols : r[c] \in {Null} \cup Vals
        /\ Cardinality({s \in Slots : r[column(s)] # Null}) = 1}

\* Contents of the Reference table: keys unique, at most MaxRows rows.
RECURSIVE TablesUpTo(_)
TablesUpTo(n) ==
    IF n = 0 THEN {{}}
    ELSE LET P == TablesUpTo(n - 1)
         IN P \cup
            {pair[1] \cup {pair[2]} :
                pair \in {q \in P \X ValidRows :
                            \A r \in q[1] : \A s \in Slots :
                                q[2][column(s)] = Null
                                    \/ r[column(s)] # q[2][column(s)]}}
Tables == TablesUpTo(MaxRows)

\* A database whose Reference table already holds rows, and an application
\* about to call the write methods of the model and of its queryset.
InitGuard ==
    /\ cfg = NoProxies
    /\ catalog = EmptyCatalog
    /\ src = [s \in Slots |-> {}]
    /\ ref \in Tables
    /\ run = NoRun
    /\ op = Idle

Save(self) ==
    /\ LET r == save(ref, self)
       IN /\ ref' = r.rows
          /\ op' = [name |-> "save", raised |-> r.raised, self |-> self]
    /\ UNCHANGED <<cfg, catalog, src, run>>

Delete(self) ==
    /\ LET r == delete(ref, self)
       IN /\ ref' = r.rows
          /\ op' = [name |-> "delete", raised |-> r.raised, self |-> self]
    /\ UNCHANGED <<cfg, catalog, src, run>>

QuerySetDelete(qs) ==
    /\ LET r == queryset_delete(ref, qs)
       IN /\ ref' = r.rows
          /\ op' = [name |-> "queryset_delete", raised |-> r.raised, qs |-> qs]
    /\ UNCHANGED <<cfg, catalog, src, run>>

QuerySetUpdate(qs, c, v) ==
    /\ LET r == queryset_update(ref, qs, c, v)
       IN /\ ref' = r.rows
          /\ op' = [name |-> "queryset_update", raised |-> r.raised, qs |-> qs,
                    c |-> c, v |-> v]
    /\ UNCHANGED <<cfg, catalog, src, run>>

NextGuard ==
    \/ \E self \in ref \cup (KeyRows \cap ValidRows) : Save(self)
    \/ \E self \in ref : Delete(self)
    \/ \E qs \in SUBSET ref : QuerySetDelete(qs)
    \/ \E qs \in SUBSET ref, c \in Cols, v \in Vals : QuerySetUpdate(qs, c, v)

SpecGuard == InitGuard /\ [][NextGuard]_vars

\* ------------------------------------------------ the read functions, alone
InitFn ==
    /\ cfg = NoProxies
    /\ catalog = EmptyCatalog
    /\ src = [s \in Slots |-> {}]
    /\ ref = {}
    /\ run = NoRun
    /\ op = Idle

\* Names select_sources can be given: names, attnames, and one that no
\* declared source carries.
SourceNames == {name(s) : s \in Slots} \cup {attname(s) : s \in Slots} \cup {"owner"}

Unpack(self) ==
    /\ op = Idle
    /\ op' = [name |-> "unpack", self |-> self, ret |-> unpack(self)]
    /\ UNCHANGED <<cfg, catalog, src, ref, run>>

ConstraintCheck(row) ==
    /\ op = Idle
    /\ op' = [name |-> "make_constraint_check", row |-> row,
              ret |-> make_constraint_check(row)]
    /\ UNCHANGED <<cfg, catalog, src, ref, run>>

SelectSources(qs, sources) ==
    /\ op = Idle
    /\ op' = [name |-> "select_sources", qs |-> qs, sources |-> sources,
              ret |-> select_sources(qs, sources)]
    /\ UNCHANGED <<cfg, catalog, src, ref, run>>

\* Each behaviour applies one function to one input.
NextFn ==
    \/ \E self \in KeyRows : Unpack(self)
    \/ \E row \in KeyRows : ConstraintCheck(row)
    \/ \E qs \in SUBSET (KeyRows \cap ValidRows), sources \in SUBSET SourceNames :
          SelectSources(qs, sources)

SpecFn == InitFn /\ [][NextFn]_vars

\* --------------------------------------------- proxy resolution, alone
InitProxy ==
    /\ cfg \in Configs
    /\ catalog = EmptyCatalog
    /\ src = [s \in Slots |-> {}]
    /\ ref = {}
    /\ run = NoRun
    /\ op = Idle

GetProxyAndForeignCols(s) ==
    /\ op' = [name |-> "get_proxy_and_foreign_cols", slot |-> s,
              ret |-> get_proxy_and_foreign_cols(s, cfg)]
    /\ UNCHANGED <<cfg, catalog, src, ref, run>>

NextProxy == \E s \in Slots : GetProxyAndForeignCols(s)

SpecProxy == InitProxy /\ [][NextProxy]_vars

\* ================================================================ claims
MultiTableError == "Proxy expressions can only use 1 table"

\* The expression a declaration selects for proxy on slot s: the per-source
\* override when foreign_fields has the slot, else the default column name.
SelectedExpr(proxy, s) ==
    IF proxy.foreign_fields[s] # Absent THEN proxy.foreign_fields[s]
    ELSE foreign_column(proxy)

\* The proxies of the declaration that feed slot s.
SelectedProxies(cls, s) ==
    LET Keep(proxy) == SelectedExpr(proxy, s) # None
    IN SelectSeq(get_field_proxies(cls), Keep)

\* Some selected expression of slot s uses a second table.
HasMultiTableAt(cls, s) ==
    \E i \in 1..Len(get_field_proxies(cls)) :
        SelectedExpr(get_field_proxies(cls)[i], s).t = "Combinable"

HasMultiTable(cls) == \E s \in Slots : HasMultiTableAt(cls, s)

\* Every slot is fed by a proxy, and every proxy expression uses one table.
Proxied(cls) ==
    /\ ~HasMultiTable(cls)
    /\ \A s \in Slots : Len(SelectedProxies(cls, s)) > 0

\* The Reference row of source row row of slot s holds the proxied values.
ProxiesInSync(cls, s, row, r) ==
    \A i \in 1..Len(SelectedProxies(cls, s)) :
        r[SelectedProxies(cls, s)[i].reference_field]
            = row[SelectedExpr(SelectedProxies(cls, s)[i], s).v]

\* C1: once _run_sql_statements has been applied, every inserted source row
\* has exactly one Reference row, keyed by the row's primary key in its own
\* slot's column and NULL in every other slot's column.
C1_OneReferenceRowPerSourceRow ==
    (run.n >= 1 /\ Proxied(cfg)) =>
        \A s \in Slots : \A row \in src[s] :
            /\ Cardinality({r \in ref : r[column(s)] = row["id"]}) = 1
            /\ \A r \in ref : r[column(s)] = row["id"] =>
                  \A o \in Slots \ {s} : r[column(o)] = Null

\* C2: after an update of a proxied source column the Reference row of the
\* updated source row exists, is the only one for it, and its proxied columns
\* hold the values of the selected expressions on the current source row.
C2_UpdateKeepsProxiesInSync ==
    (run.n >= 1 /\ Proxied(cfg) /\ op.name = "update") =>
        \A row \in src[op.slot] :
            row["id"] = op.pk =>
                /\ Cardinality({r \in ref : r[column(op.slot)] = op.pk}) = 1
                /\ \A r \in ref : r[column(op.slot)] = op.pk =>
                      ProxiesInSync(cfg, op.slot, row, r)

\* C3: rows inserted into two different source tables under the same key
\* value never give two Reference rows, and the proxied values of both source
\* rows are kept in the Reference table.
C3_UpsertRaceSafe ==
    (run.n >= 1 /\ Proxied(cfg)) =>
        \A s1, s2 \in Slots : \A row1 \in src[s1] : \A row2 \in src[s2] :
            (s1 # s2 /\ row1["id"] = row2["id"]) =>
                /\ Cardinality({r \in ref :
                        \/ r[column(s1)] = row1["id"]
                        \/ r[column(s2)] = row2["id"]}) <= 1
                /\ \E r \in ref :
                        r[column(s1)] = row1["id"] /\ ProxiesInSync(cfg, s1, row1, r)
                /\ \E r \in ref :
                        r[column(s2)] = row2["id"] /\ ProxiesInSync(cfg, s2, row2, r)

\* C4: the check constraint is true of a row exactly when exactly one slot
\* column of the row is not NULL (false for none and for two or more).
C4_ConstraintIsExactlyOne ==
    op.name = "make_constraint_check" =>
        (op.ret <=> Cardinality({s \in Slots : op.row[column(s)] # Null}) = 1)

C4_Witness ==
    /\ op.name = "make_constraint_check"
    /\ Cardinality({s \in Slots : op.row[column(s)] # Null}) >= 2
    /\ op.ret = FALSE

\* C5: after _run_sql_statements has run twice no duplicate-object error has
\* escaped and the catalog holds exactly one trigger and exactly one unique
\* index per slot, and exactly one only-one-source constraint.
C5_ApplyTwiceIsIdempotent ==
    (run.n >= 2 /\ Proxied(cfg)) =>
        /\ run.err \notin {"duplicate_table", "duplicate_object"}
        /\ catalog.constraint = 1
        /\ \A s \in Slots :
              /\ catalog.index[s] = 1
              /\ catalog.trigger[s].present

\* C6: with a proxy expression that uses more than one table,
\* _run_sql_statements fails with the multi-table error and no statement of
\* the run has been handed to the cursor.  Stated for the slot declared
\* first, whose statements no other slot's failure can precede.
C6_MultiTableFailsBeforeAnyStatement ==
    (run.n >= 1 /\ HasMultiTableAt(cfg, get_reference_sources[1])) =>
        /\ run.err = MultiTableError
        /\ run.log = <<>>

\* C7: unpack returns the related object of the first slot, in declaration
\* order, whose column is not NULL, and raises when every slot is NULL.
C7_UnpackFirstPopulatedSlot ==
    op.name = "unpack" =>
        LET P == {s \in Slots : op.self[column(s)] # Null}
        IN IF P = {} THEN op.ret.raised = "Reference has no source"
           ELSE /\ op.ret.raised = ""
                /\ op.ret.source = name(Min(P))
                /\ op.ret.pk = op.self[column(Min(P))]

C7_Witness ==
    /\ op.name = "unpack"
    /\ Cardinality({s \in Slots : op.self[column(s)] # Null}) >= 2
    /\ op.ret.raised = ""
    /\ op.ret.source = name(1)

\* C8: save and delete of an instance, update and delete of a queryset raise
\* and leave the Reference table, and the rest of the database, as it was.
C8_WritesAlwaysRaise ==
    [][op'.name \in {"save", "delete", "queryset_update", "queryset_delete"} =>
          /\ op'.raised # ""
          /\ ref' = ref
          /\ src' = src
          /\ catalog' = catalog]_vars

C8_Witness ==
    /\ op.name = "save"
    /\ op.raised # ""
    /\ ref # {}
    /\ op.self \notin ref

\* C9: for a non-empty list of names select_sources returns exactly the rows
\* of the queryset whose populated slot is one of the named sources.
C9_SelectSourcesExact ==
    (op.name = "select_sources" /\ op.sources # {}) =>
        /\ op.ret.raised = ""
        /\ op.ret.rows =
             {r \in op.qs : \E s \in Slots :
                 /\ r[column(s)] # Null
                 /\ (name(s) \in op.sources \/ attname(s) \in op.sources)}

\* C10: get_proxy_and_foreign_cols returns two sequences of equal length, in
\* proxy order, the i-th target being the Reference column of the i-th
\* selected proxy and the i-th triple resolving that proxy's expression; a
\* proxy whose selected expression is None is in neither.
C10_TargetsAreReferenceColumns ==
    (op.name = "get_proxy_and_foreign_cols" /\ op.ret.raised = "") =>
        LET sel == SelectedProxies(cfg, op.slot)
        IN /\ Len(op.ret.proxy_field_cols) = Len(sel)
           /\ Len(op.ret.foreign_cols) = Len(sel)
           /\ \A i \in 1..Len(sel) :
                /\ op.ret.proxy_field_cols[i] = sel[i].reference_field
                /\ op.ret.foreign_cols[i].ann = SelectedExpr(sel[i], op.slot).v
                /\ op.ret.foreign_cols[i].sql = <<"NEW", SelectedExpr(sel[i], op.slot).v>>

====
